---- MODULE Spec2Model ----
(***************************************************************************)
(* Model of src/source/component.ts (singleware/ui-control): the Component *)
(* base class, its constructor, the prototype-chain descriptor lookup, the *)
(* binding of properties onto a target and the assignment of values onto   *)
(* the instance.  Objects are modelled with ECMAScript property            *)
(* descriptors; the class body is strict-mode code.                        *)
(***************************************************************************)
EXTENDS Integers, Sequences, FiniteSets, TLC

VARIABLES
    heap,        \* the containers (property bags, child lists), by place
    components,  \* the components constructed: their properties and children
    inst,        \* the instance (this): own properties, internal fields
    chain,       \* the prototypes of the instance, nearest first
    target,      \* the object that properties are bound onto
    call,        \* the bind or assign call that has just run, and its outcome
    calls,       \* the number of bind and assign calls made
    lookup       \* the getPropertyDescriptor call that has just run

vars == <<heap, components, inst, chain, target, call, calls, lookup>>

-----------------------------------------------------------------------------
(* Bounds of the model *)

\* longest list of property names passed to one call
MaxKeys == 2
\* number of subclass levels between the instance and Component.prototype
MaxDepth == 1
\* number of subclass levels in the chains the lookup is exercised on
MaxChain == 2
\* number of bind/assign calls in one behaviour
MaxCalls == 1
\* number of components constructed in one behaviour
MaxComponents == 3

-----------------------------------------------------------------------------
(* ECMAScript values.  Every value is a record of the same shape:          *)
(*   tag  : "undefined", "absent", "prim", "object", "function", "bound"   *)
(*   id   : the literal of a primitive; "get", "set" or "method" for a     *)
(*          function                                                       *)
(*   key  : for a function, the property it was declared under (an         *)
(*          accessor function reads or stores the internal field of that   *)
(*          name on its context object)                                    *)
(*   ref  : for an object, its place in the heap; for a function, the      *)
(*          level of the chain that declares it                            *)
(*   this : for a bound function, the context it is bound to               *)

Val(tag, id, key, ref, this) ==
    [tag |-> tag, id |-> id, key |-> key, ref |-> ref, this |-> this]

Undefined == Val("undefined", "", "", 0, "")
\* marks a key that a values object does not have
Absent == Val("absent", "", "", 0, "")
Prim(s) == Val("prim", s, "", 0, "")
Ref(n) == Val("object", "", "", n, "")
Fn(id, key, lvl) == Val("function", id, key, lvl, "")

\* ToBoolean: undefined, 0 and "" are falsy; every object and function is truthy
Truthy(v) ==
    /\ v.tag # "undefined"
    /\ ~(v.tag = "prim" /\ v.id \in {"0", ""})

\* whether value.bind is a callable: only functions have Function.prototype.bind
IsCallable(v) == v.tag \in {"function", "bound"}

\* Function.prototype.bind: a new function whose context is fixed; binding a
\* bound function again keeps the first context
BindTo(v, ctx) ==
    Val("bound", v.id, v.key, v.ref, IF v.tag = "bound" THEN v.this ELSE ctx)

\* the context a function observes when it is invoked as receiver.f(...)
ThisOf(f, receiver) == IF f.tag = "bound" THEN f.this ELSE receiver

-----------------------------------------------------------------------------
(* Property descriptors *)

Desc(kind, value, get, set, w, e, c) ==
    [kind |-> kind, value |-> value, get |-> get, set |-> set,
     writable |-> w, enumerable |-> e, configurable |-> c]

\* the result of Object.getOwnPropertyDescriptor for an undeclared key
NoDesc == Desc("absent", Undefined, Undefined, Undefined, FALSE, FALSE, FALSE)
Data(v, w, e, c) == Desc("data", v, Undefined, Undefined, w, e, c)
Accessor(g, s, e, c) == Desc("accessor", Undefined, g, s, FALSE, e, c)

Keys == {"properties", "children", "element", "label", "reset"}

NoProps == [k \in Keys |-> NoDesc]
NoFields == [k \in Keys |-> Undefined]

\* the objects that can be the context of a call
InstanceObj == "instance"
TargetObj == "target"

-----------------------------------------------------------------------------
(* The heap of containers (property bags and child lists).  A container is *)
(* referred to by its place in the heap; place 0 is an omitted argument.   *)

Container(content, frozen) == [content |-> content, frozen |-> frozen]

\* the objects the caller owns before any component is constructed
CallerHeap ==
    << Container({"color=red"}, FALSE),
       Container({"child"}, FALSE),
       Container({"size=1"}, FALSE) >>

\* an attempt to add an entry to a container: ignored (or rejected) when frozen
Mutate(h, id, entry) ==
    IF h[id].frozen THEN h
    ELSE [h EXCEPT ![id].content = h[id].content \cup {entry}]

\* Object.freeze
Freeze(h, id) == [h EXCEPT ![id].frozen = TRUE]

\* a default that is one container shared by every construction
SharedEmpty(h) ==
    IF \E id \in DOMAIN h : h[id].content = {} /\ id > Len(CallerHeap)
    THEN [heap |-> h,
          id |-> CHOOSE id \in DOMAIN h : h[id].content = {} /\ id > Len(CallerHeap)]
    ELSE [heap |-> Append(h, Container({}, FALSE)), id |-> Len(h) + 1]

\* the literals {} and []: a new empty container on every evaluation
NewEmpty(h) == [heap |-> Append(h, Container({}, FALSE)), id |-> Len(h) + 1]

\* properties || {}  and  children || []
OrDefault(h, arg) == IF arg # 0 THEN [heap |-> h, id |-> arg] ELSE NewEmpty(h)

\* the constructor: both containers are frozen, given or not
Constructor(h, properties, children) ==
    LET p == OrDefault(h, properties)
        h1 == Freeze(p.heap, p.id)
        c == OrDefault(h1, children)
        h2 == Freeze(c.heap, c.id)
    IN [heap |-> h2, properties |-> p.id, children |-> c.id]

-----------------------------------------------------------------------------
(* Class layouts.  Level 1 is the instance itself, levels 2.. are its      *)
(* prototypes, the last of them Component.prototype.                       *)

LabelDesc(kind, lvl) ==
    CASE kind = "rw" -> Accessor(Fn("get", "label", lvl), Fn("set", "label", lvl), FALSE, TRUE)
      [] kind = "ro" -> Accessor(Fn("get", "label", lvl), Undefined, FALSE, TRUE)
      [] kind = "wo" -> Accessor(Undefined, Fn("set", "label", lvl), FALSE, TRUE)
      [] kind = "str" -> Data(Prim("red"), TRUE, FALSE, TRUE)
      [] kind = "zero" -> Data(Prim("0"), FALSE, FALSE, TRUE)
      [] OTHER -> NoDesc

ResetDesc(kind, lvl) ==
    IF kind = "fn" THEN Data(Fn("method", "reset", lvl), TRUE, FALSE, TRUE) ELSE NoDesc

ElementDesc(kind, lvl) ==
    CASE kind = "get" -> Accessor(Fn("get", "element", lvl), Undefined, FALSE, TRUE)
      [] kind = "throw" -> Accessor(Fn("throw", "element", lvl), Undefined, FALSE, TRUE)
      [] OTHER -> NoDesc

\* what a class declares on its prototype: <<label, reset, element>>
ClassShapes ==
    { <<"rw", "fn", "get">>, <<"ro", "none", "get">>, <<"wo", "fn", "none">>,
      <<"str", "none", "none">>, <<"zero", "none", "get">>, <<"none", "fn", "none">> }

Layer(shape, lvl) ==
    [k \in Keys |->
        CASE k = "label" -> LabelDesc(shape[1], lvl)
          [] k = "reset" -> ResetDesc(shape[2], lvl)
          [] k = "element" -> ElementDesc(shape[3], lvl)
          [] OTHER -> NoDesc]

\* Component.prototype: the element getter that always throws
BaseLayer(lvl) == Layer(<<"none", "none", "throw">>, lvl)

ShapeLists(depth) == UNION {[1..n -> ClassShapes] : n \in 0..depth}

\* the prototypes of an instance whose subclasses have these shapes
ChainOf(shapes) ==
    [i \in 1..(Len(shapes) + 1) |->
        IF i <= Len(shapes) THEN Layer(shapes[i], i + 1) ELSE BaseLayer(i + 1)]

\* what the instance holds itself besides properties and children
OwnShapes == {"none", "fn", "data", "acc"}

OwnProps(shape, properties, children) ==
    [k \in Keys |->
        CASE k = "properties" -> Data(Ref(properties), TRUE, TRUE, TRUE)
          [] k = "children" -> Data(Ref(children), TRUE, TRUE, TRUE)
          [] k = "reset" /\ shape = "fn" -> Data(Fn("method", "reset", 1), TRUE, TRUE, TRUE)
          [] k = "label" /\ shape = "data" -> Data(Prim("own"), TRUE, TRUE, TRUE)
          [] k = "label" /\ shape = "acc" ->
                Accessor(Fn("get", "label", 1), Fn("set", "label", 1), FALSE, TRUE)
          [] OTHER -> NoDesc]

\* the internal fields the accessors of the instance read and store
InstanceFields == [k \in Keys |-> IF k \in {"label", "element"} THEN Prim("x") ELSE Undefined]

\* what the target declares before the bind: <<kind, configurable>>
TargetShapes == {<<"none", TRUE>>} \cup ({"data", "accessor"} \X BOOLEAN)
TargetKeys == {"label", "reset", "element"}

TargetProps(shape) ==
    [k \in Keys |->
        CASE k \in TargetKeys /\ shape[1] = "data" ->
                Data(Prim("old"), shape[2], TRUE, shape[2])
          [] k \in TargetKeys /\ shape[1] = "accessor" ->
                Accessor(Fn("get", k, 0), Fn("set", k, 0), TRUE, shape[2])
          [] OTHER -> NoDesc]

TargetFields == [k \in Keys |-> IF k \in TargetKeys THEN Prim("t") ELSE Undefined]

\* the instance followed by its prototypes
FullChain(own, protos) == <<own>> \o protos

-----------------------------------------------------------------------------
(* ECMAScript object semantics used by the component's code *)

Min(S) == CHOOSE x \in S : \A y \in S : x <= y

\* the levels of objs, from start on, that declare key themselves
Declaring(objs, start, key) == {i \in start..Len(objs) : objs[i][key] # NoDesc}

\* the language's own property resolution: the nearest declaration shadows
Resolve(objs, start, key) ==
    IF Declaring(objs, start, key) = {} THEN NoDesc
    ELSE objs[Min(Declaring(objs, start, key))][key]

\* key in object
HasProperty(objs, key) == Declaring(objs, 1, key) # {}

\* the state the accessors work on: the instance and the target
World(i, t) == [inst |-> i, target |-> t]

ObjectOf(w, ctx) == IF ctx = InstanceObj THEN w.inst ELSE w.target

WithObject(w, ctx, obj) ==
    IF ctx = InstanceObj THEN [w EXCEPT !.inst = obj] ELSE [w EXCEPT !.target = obj]

\* the objects searched when a property of ctx is read or written
ChainFrom(w, protos, ctx) ==
    IF ctx = InstanceObj THEN FullChain(w.inst.own, protos) ELSE <<w.target.own>>

\* the result of a getter that throws
Thrown == Val("thrown", "Component not implemented.", "", 0, "")

\* receiver[key]
Read(w, protos, receiver, key) ==
    LET d == Resolve(ChainFrom(w, protos, receiver), 1, key)
    IN CASE d.kind = "data" -> d.value
         [] d.kind = "accessor" /\ d.get = Undefined -> Undefined
         [] d.kind = "accessor" /\ d.get.id = "throw" -> Thrown
         [] d.kind = "accessor" -> ObjectOf(w, ThisOf(d.get, receiver)).fields[d.get.key]
         [] OTHER -> Undefined

\* receiver[key] = v in strict code: [ok |-> FALSE] stands for the TypeError
Write(w, protos, receiver, key, v) ==
    LET objs == ChainFrom(w, protos, receiver)
        d == Resolve(objs, 1, key)
        obj == ObjectOf(w, receiver)
        stored == [obj EXCEPT !.own[key] =
                      IF objs[1][key] # NoDesc
                      THEN [objs[1][key] EXCEPT !.value = v]
                      ELSE Data(v, TRUE, TRUE, TRUE)]
    IN CASE d.kind = "accessor" /\ d.set = Undefined -> [ok |-> FALSE, world |-> w]
         [] d.kind = "accessor" ->
              LET ctx == ThisOf(d.set, receiver)
                  o == ObjectOf(w, ctx)
              IN [ok |-> TRUE,
                  world |-> WithObject(w, ctx, [o EXCEPT !.fields[d.set.key] = v])]
         [] d.kind = "data" /\ ~d.writable -> [ok |-> FALSE, world |-> w]
         [] objs[1][key] = NoDesc /\ ~obj.extensible -> [ok |-> FALSE, world |-> w]
         [] OTHER -> [ok |-> TRUE, world |-> WithObject(w, receiver, stored)]

\* SameValue, for a descriptor field that bind has just produced: a function
\* that bind returns is a new object, the same as no other
SameValue(a, b) == a = b /\ a.tag # "bound"

\* whether [[DefineOwnProperty]] accepts desc over the current declaration
DefineAllowed(obj, key, desc) ==
    LET cur == obj.own[key]
    IN IF cur = NoDesc THEN obj.extensible
       ELSE \/ cur.configurable
            \/ /\ ~desc.configurable
               /\ desc.enumerable = cur.enumerable
               /\ desc.kind = cur.kind
               /\ desc.kind = "accessor" =>
                     SameValue(desc.get, cur.get) /\ SameValue(desc.set, cur.set)
               /\ (desc.kind = "data" /\ ~cur.writable) =>
                     ~desc.writable /\ SameValue(desc.value, cur.value)

\* Reflect.defineProperty(target, key, desc): FALSE, and no change, when the
\* definition is not allowed; the result is what the caller does with it
DefineProperty(obj, key, desc) ==
    IF DefineAllowed(obj, key, desc)
    THEN [ok |-> TRUE, obj |-> [obj EXCEPT !.own[key] = desc]]
    ELSE [ok |-> FALSE, obj |-> obj]

-----------------------------------------------------------------------------
(* Component.getPropertyDescriptor *)

RECURSIVE GetPropertyDescriptorLoop(_, _, _, _)
\* the while loop: objs[i] is the current prototype, n the objects asked so far
GetPropertyDescriptorLoop(objs, i, key, n) ==
    IF objs[i][key] # NoDesc THEN [desc |-> objs[i][key], visited |-> n + 1]
    ELSE IF i = Len(objs) THEN [desc |-> NoDesc, visited |-> n + 1]
    ELSE GetPropertyDescriptorLoop(objs, i + 1, key, n + 1)

\* a lookup that keeps walking and returns the declaration furthest up
FarthestDescriptor(objs, start, key) ==
    LET S == {i \in start..Len(objs) : objs[i][key] # NoDesc}
    IN [desc |-> IF S = {} THEN NoDesc
                 ELSE objs[CHOOSE i \in S : \A j \in S : j <= i][key],
        visited |-> Len(objs) - start + 1]

getPropertyDescriptor(objs, start, key) == GetPropertyDescriptorLoop(objs, start, key, 0)

-----------------------------------------------------------------------------
(* Component.bindDescriptor *)

Bound(f, ctx) == IF Truthy(f) THEN BindTo(f, ctx) ELSE f

bindDescriptor(objs, start, key, ctx) ==
    LET descriptor == getPropertyDescriptor(objs, start, key).desc
    IN IF descriptor = NoDesc THEN [err |-> "not-found", desc |-> NoDesc]
       ELSE IF Truthy(descriptor.value)
            THEN IF IsCallable(descriptor.value)
                 THEN [err |-> "none",
                       desc |-> [descriptor EXCEPT !.value = BindTo(descriptor.value, ctx)]]
                 ELSE [err |-> "type-error", desc |-> NoDesc]
            ELSE [err |-> "none",
                  desc |-> [descriptor EXCEPT !.get = Bound(descriptor.get, ctx),
                                              !.set = Bound(descriptor.set, ctx)]]

-----------------------------------------------------------------------------
(* Component.bindComponentProperties *)

\* Reflect.getPrototypeOf(this): the level after the instance
PrototypeOfThis == 2

RECURSIVE BindLoop(_, _, _, _)
\* the for loop from the i-th property on; the result of Reflect.defineProperty
\* is not looked at
BindLoop(objs, tgt, properties, i) ==
    IF i > Len(properties) THEN [target |-> tgt, err |-> "none", at |-> 0]
    ELSE LET b == bindDescriptor(objs, PrototypeOfThis, properties[i], InstanceObj)
         IN IF b.err # "none" THEN [target |-> tgt, err |-> b.err, at |-> i]
            ELSE BindLoop(objs, DefineProperty(tgt, properties[i], b.desc).obj,
                          properties, i + 1)

bindComponentProperties(own, protos, tgt, properties) ==
    BindLoop(FullChain(own, protos), tgt, properties, 1)

-----------------------------------------------------------------------------
(* Component.assignComponentProperties *)

\* a test that takes every listed property to be in values
InValuesAlways(values, property) == TRUE

\* property in values
InValues(values, property) == values[property] # Absent

\* a test that takes every property to be in this
InThisAlways(w, protos, property) == TRUE

\* property in this
InThis(w, protos, property) == HasProperty(ChainFrom(w, protos, InstanceObj), property)

RECURSIVE AssignLoop(_, _, _, _, _)
AssignLoop(w, protos, values, properties, i) ==
    IF i > Len(properties) THEN [world |-> w, err |-> "none", at |-> 0]
    ELSE LET property == properties[i]
         IN IF ~InValues(values, property)
            THEN AssignLoop(w, protos, values, properties, i + 1)
            ELSE IF ~InThis(w, protos, property)
            THEN [world |-> w, err |-> "not-assignable", at |-> i]
            ELSE LET r == Write(w, protos, InstanceObj, property, values[property])
                 IN IF ~r.ok THEN [world |-> w, err |-> "type-error", at |-> i]
                    ELSE AssignLoop(r.world, protos, values, properties, i + 1)

assignComponentProperties(w, protos, values, properties) ==
    AssignLoop(w, protos, values, properties, 1)

-----------------------------------------------------------------------------
(* Inputs *)

KeyLists == UNION {[1..n -> Keys] : n \in 0..MaxKeys}

NoValues == [k \in Keys |-> Absent]

\* the objects whose values are assigned: the listed names pick among their keys
ValueObjects ==
    { [NoValues EXCEPT !["label"] = Prim("y"), !["reset"] = Prim("z")],
      [NoValues EXCEPT !["properties"] = Ref(3), !["children"] = Ref(3),
                       !["element"] = Prim("y"), !["label"] = Prim("")] }

\* constructor arguments <<properties, children>>; 0 is an omitted argument
CtorArgs == {<<0, 0>>, <<1, 2>>}

NoCall(i, t) ==
    [op |-> "none", keys |-> <<>>, values |-> NoValues, err |-> "none", at |-> 0,
     inst |-> i, target |-> t]

NoLookup == [start |-> 0, key |-> "", desc |-> NoDesc, visited |-> 0]

-----------------------------------------------------------------------------
(* The component under bind and assign *)

\* new Component(properties, children) of a class of the given shapes, and
\* the target its properties will be bound onto
Constructed(shapes, own, tshape, args) ==
    LET c == Constructor(CallerHeap, args[1], args[2])
        i == [own |-> OwnProps(own, c.properties, c.children),
              fields |-> InstanceFields, extensible |-> TRUE]
        t == [own |-> TargetProps(tshape), fields |-> TargetFields, extensible |-> TRUE]
    IN /\ heap = c.heap
       /\ components = <<[properties |-> c.properties, children |-> c.children,
                          given |-> <<args[1] # 0, args[2] # 0>>]>>
       /\ inst = i
       /\ chain = ChainOf(shapes)
       /\ target = t
       /\ call = NoCall(i, t)
       /\ calls = 0
       /\ lookup = NoLookup

Init ==
    \E shapes \in ShapeLists(MaxDepth), own \in OwnShapes,
       tshape \in TargetShapes, args \in CtorArgs :
        Constructed(shapes, own, tshape, args)

BindComponentProperties(properties) ==
    /\ call.op = "none"
    /\ calls < MaxCalls
    /\ LET r == bindComponentProperties(inst.own, chain, target, properties)
       IN /\ target' = r.target
          /\ call' = [op |-> "bind", keys |-> properties, values |-> NoValues,
                      err |-> r.err, at |-> r.at, inst |-> inst, target |-> target]
    /\ calls' = calls + 1
    /\ UNCHANGED <<heap, components, inst, chain, lookup>>

AssignComponentProperties(values, properties) ==
    /\ call.op = "none"
    /\ calls < MaxCalls
    /\ LET r == assignComponentProperties(World(inst, target), chain, values, properties)
       IN /\ inst' = r.world.inst
          /\ target' = r.world.target
          /\ call' = [op |-> "assign", keys |-> properties, values |-> values,
                      err |-> r.err, at |-> r.at, inst |-> inst, target |-> target]
    /\ calls' = calls + 1
    /\ UNCHANGED <<heap, components, chain, lookup>>

\* the call is over (it returned or threw) and the caller goes on
Return ==
    /\ call.op # "none"
    /\ call' = NoCall(inst, target)
    /\ UNCHANGED <<heap, components, inst, chain, target, calls, lookup>>

Next ==
    \/ Return
    \/ \E properties \in KeyLists : BindComponentProperties(properties)
    \/ \E values \in ValueObjects, properties \in KeyLists :
          AssignComponentProperties(values, properties)

Spec == Init /\ [][Next]_vars

-----------------------------------------------------------------------------
(* The component under assign alone: the target plays no part in it *)

InitAssign ==
    \E shapes \in ShapeLists(MaxDepth), own \in OwnShapes :
        Constructed(shapes, own, <<"none", TRUE>>, <<1, 2>>)

NextAssign ==
    \/ Return
    \/ \E values \in ValueObjects, properties \in KeyLists :
          AssignComponentProperties(values, properties)

SpecAssign == InitAssign /\ [][NextAssign]_vars

-----------------------------------------------------------------------------
(* Constructions: any number of components over the caller's containers *)

Idle ==
    LET i == [own |-> NoProps, fields |-> NoFields, extensible |-> TRUE]
        t == [own |-> NoProps, fields |-> NoFields, extensible |-> TRUE]
    IN /\ inst = i
       /\ chain = <<BaseLayer(2)>>
       /\ target = t
       /\ call = NoCall(i, t)
       /\ calls = 0
       /\ lookup = NoLookup

InitNew ==
    /\ heap = CallerHeap
    /\ components = <<>>
    /\ Idle

\* new Component(properties, children); 0 is an omitted argument
Construct(properties, children) ==
    /\ Len(components) < MaxComponents
    /\ LET c == Constructor(heap, properties, children)
       IN /\ heap' = c.heap
          /\ components' = Append(components,
                [properties |-> c.properties, children |-> c.children,
                 given |-> <<properties # 0, children # 0>>])
    /\ UNCHANGED <<inst, chain, target, call, calls, lookup>>

\* somebody tries to add an entry to a container
MutateAttempt(id) ==
    /\ heap' = Mutate(heap, id, "extra")
    /\ UNCHANGED <<components, inst, chain, target, call, calls, lookup>>

NextNew ==
    \/ \E properties \in {0, 1, 3}, children \in {0, 2} : Construct(properties, children)
    \/ \E id \in DOMAIN heap : MutateAttempt(id)

SpecNew == InitNew /\ [][NextNew]_vars

-----------------------------------------------------------------------------
(* Lookups: getPropertyDescriptor from any object of a chain *)

InitResolve ==
    \E shapes \in ShapeLists(MaxChain), own \in OwnShapes :
        Constructed(shapes, own, <<"none", TRUE>>, <<0, 0>>)

GetPropertyDescriptor(start, key) ==
    /\ LET r == getPropertyDescriptor(FullChain(inst.own, chain), start, key)
       IN lookup' = [start |-> start, key |-> key, desc |-> r.desc, visited |-> r.visited]
    /\ UNCHANGED <<heap, components, inst, chain, target, call, calls>>

NextResolve ==
    \E start \in 1..(Len(chain) + 1), key \in Keys : GetPropertyDescriptor(start, key)

SpecResolve == InitResolve /\ [][NextResolve]_vars

-----------------------------------------------------------------------------
(* Properties of the constructor *)

\* the containers that construction made itself (not the caller's)
IsDefault(id) == id > Len(CallerHeap)

\* every container some component holds, one entry per holding
Holdings ==
    {<<i, "properties">> : i \in DOMAIN components}
        \cup {<<i, "children">> : i \in DOMAIN components}

Held(h) == IF h[2] = "properties" THEN components[h[1]].properties
           ELSE components[h[1]].children

Omitted(h) == IF h[2] = "properties" THEN ~components[h[1]].given[1]
              ELSE ~components[h[1]].given[2]

\* C7: a container that the construction had to supply because the argument
\* was omitted is empty, frozen (an attempt to change it changes nothing) and
\* held by this component in this place only
C7_DefaultsEmptyFrozenDistinct ==
    \A h \in Holdings :
        Omitted(h) =>
            /\ heap[Held(h)].content = {}
            /\ heap[Held(h)].frozen
            /\ Mutate(heap, Held(h), "extra") = heap
            /\ IsDefault(Held(h))
            /\ \A g \in Holdings : g # h => Held(g) # Held(h)

\* two components, both constructed without arguments
C7_Witness ==
    /\ Len(components) >= 2
    /\ \A h \in Holdings : Omitted(h)
    /\ \E id \in DOMAIN heap : IsDefault(id)

-----------------------------------------------------------------------------
(* Properties of getPropertyDescriptor *)

LookupObjs == FullChain(inst.own, chain)

\* C10: the lookup returns the declaration of the nearest object, counted
\* from start, that declares the key itself, returns nothing exactly when no
\* object from start on declares it, asks no more objects than the chain
\* holds, and changes no object
C10_NearestDeclarationWins ==
    lookup.start # 0 =>
        LET S == Declaring(LookupObjs, lookup.start, lookup.key)
        IN /\ (lookup.desc = NoDesc) <=> (S = {})
           /\ S # {} =>
                /\ lookup.desc = LookupObjs[Min(S)][lookup.key]
                /\ lookup.visited = Min(S) - lookup.start + 1
           /\ lookup.visited <= Len(LookupObjs) - lookup.start + 1
           /\ inst = call.inst
           /\ target = call.target

\* a lookup from the instance's prototype for a key that two levels declare
\* differently: the nearer one was returned
C10_Witness ==
    /\ lookup.start = 2
    /\ Cardinality(Declaring(LookupObjs, lookup.start, lookup.key)) >= 2
    /\ \E i, j \in Declaring(LookupObjs, lookup.start, lookup.key) :
          LookupObjs[i][lookup.key] # LookupObjs[j][lookup.key]
    /\ lookup.desc # NoDesc

-----------------------------------------------------------------------------
(* Properties of bindComponentProperties and assignComponentProperties.    *)
(* call holds the last call: its inputs, its outcome, and the instance and *)
(* the target as they were when it began.                                  *)

\* the instance and its prototypes when the call began
CallObjs == FullChain(call.inst.own, chain)

Now == World(inst, target)

\* the loop got to the i-th name of the list
Reached(i) == call.err = "none" \/ call.at >= i

\* the loop finished the i-th name of the list
Processed(i) == call.err = "none" \/ call.at > i

NamesBefore(i) == {call.keys[j] : j \in 1..(i - 1)}

\* a descriptor with each function it holds bound to the instance
Rebound(d) ==
    [d EXCEPT !.value = IF IsCallable(d.value) THEN BindTo(d.value, InstanceObj) ELSE d.value,
              !.get = IF IsCallable(d.get) THEN BindTo(d.get, InstanceObj) ELSE d.get,
              !.set = IF IsCallable(d.set) THEN BindTo(d.set, InstanceObj) ELSE d.set]

\* what the instance keeps for a key: its own declaration and its internal field
StateOf(i, key) == <<i.own[key], i.fields[key]>>

\* C1: when the bind meets a name that no prototype of the instance declares,
\* it fails there with the not-found error, every name before it is installed
\* on the target, and the failing name and the names after it are as the
\* target had them before the call
C1_NotFoundKeepsEarlierInstalls ==
    call.op = "bind" =>
        \A i \in DOMAIN call.keys :
            (Reached(i) /\ Declaring(CallObjs, PrototypeOfThis, call.keys[i]) = {}) =>
                /\ call.err = "not-found"
                /\ call.at = i
                /\ \A j \in 1..(i - 1) :
                      target.own[call.keys[j]] =
                          Rebound(Resolve(CallObjs, PrototypeOfThis, call.keys[j]))
                /\ \A j \in i..Len(call.keys) :
                      call.keys[j] \notin NamesBefore(i) =>
                          target.own[call.keys[j]] = call.target.own[call.keys[j]]

\* C8: after a bind that returned without error, the target's own property
\* under each name is the rebound descriptor of the instance, whatever the
\* target declared under that name before
C8_InstallOverwrites ==
    (call.op = "bind" /\ call.err = "none") =>
        \A i \in DOMAIN call.keys :
            target.own[call.keys[i]] =
                Rebound(Resolve(CallObjs, PrototypeOfThis, call.keys[i]))

\* C9: a name whose nearest descriptor holds a stored value that is not
\* invocable does not make the bind fail, and on a target that accepts the
\* definition the descriptor is installed unchanged
C9_NonInvocableValueInstalledUnchanged ==
    call.op = "bind" =>
        \A i \in DOMAIN call.keys :
            LET d == Resolve(CallObjs, PrototypeOfThis, call.keys[i])
            IN (Reached(i) /\ d.kind = "data" /\ ~IsCallable(d.value)) =>
                  /\ call.at # i
                  /\ (Processed(i) /\ DefineAllowed(call.target, call.keys[i], d)) =>
                        target.own[call.keys[i]] = d

\* the values written through the target and the instance to compare them
ProbeValues == {Prim("y"), Prim("")}

\* C4: for a name that resolves to an accessor on the instance, reading it on
\* the target gives what reading it on the instance gives, writing it on the
\* target changes the instance as writing it on the instance does and leaves
\* the target as it was, and the target has no getter or setter that the
\* descriptor lacks
C4_AccessorReadsAndWritesThrough ==
    call.op = "bind" =>
        \A i \in DOMAIN call.keys :
            LET key == call.keys[i]
                d == Resolve(CallObjs, 1, key)
            IN (Processed(i) /\ d.kind = "accessor") =>
                  /\ Read(Now, chain, TargetObj, key) = Read(Now, chain, InstanceObj, key)
                  /\ \A v \in ProbeValues :
                        LET wt == Write(Now, chain, TargetObj, key, v)
                            wi == Write(Now, chain, InstanceObj, key, v)
                        IN /\ wt.ok = wi.ok
                           /\ wt.world.inst = wi.world.inst
                           /\ wt.world.target = target
                  /\ d.get = Undefined => target.own[key].get = Undefined
                  /\ d.set = Undefined => target.own[key].set = Undefined

\* C5: for a name that resolves to a function value on the instance, own or
\* inherited, the bind does not fail at it and installs on the target that
\* function, which called through the target runs with the instance as context
C5_FunctionRunsWithInstance ==
    call.op = "bind" =>
        \A i \in DOMAIN call.keys :
            LET key == call.keys[i]
                d == Resolve(CallObjs, 1, key)
            IN (Reached(i) /\ d.kind = "data" /\ d.value.tag = "function") =>
                  /\ call.at # i
                  /\ Processed(i) =>
                        /\ target.own[key].kind = "data"
                        /\ IsCallable(target.own[key].value)
                        /\ target.own[key].value.id = d.value.id
                        /\ target.own[key].value.key = d.value.key
                        /\ target.own[key].value.ref = d.value.ref
                        /\ ThisOf(target.own[key].value, TargetObj) = InstanceObj

\* C6: the instance's properties and children are the containers that the
\* construction set, frozen and with the content they had then
C6_PropertiesAndChildrenFixed ==
    LET c == components[1]
    IN /\ inst.own["properties"] = Data(Ref(c.properties), TRUE, TRUE, TRUE)
       /\ inst.own["children"] = Data(Ref(c.children), TRUE, TRUE, TRUE)
       /\ heap[c.properties].frozen
       /\ heap[c.children].frozen
       /\ heap[c.properties].content =
             IF c.given[1] THEN CallerHeap[c.properties].content ELSE {}
       /\ heap[c.children].content =
             IF c.given[2] THEN CallerHeap[c.children].content ELSE {}

\* the values object of the call has the key
Given(key) == call.values[key] # Absent

\* the value the instance holds for a key after it absorbed v: in the internal
\* field of the accessor's setter, or in the data property
Absorbed(i, key, v) ==
    LET d == Resolve(FullChain(i.own, chain), 1, key)
    IN IF d.kind = "accessor" THEN d.set # Undefined /\ i.fields[d.set.key] = v
       ELSE i.own[key].kind = "data" /\ i.own[key].value = v

\* a name of the list that is in values and not reachable on the instance
Unassignable(i) ==
    /\ Given(call.keys[i])
    /\ ~HasProperty(CallObjs, call.keys[i])

\* C2: when the assign meets a name that is in values and not reachable on
\* the instance, it fails there with the not-assignable error, the names
\* handled before it hold the values they absorbed, and what the instance
\* keeps for the failing name and for the names that only come after it is as
\* it was before the call
C2_NotAssignableKeepsEarlierValues ==
    call.op = "assign" =>
        \A i \in DOMAIN call.keys :
            (Reached(i) /\ Unassignable(i)) =>
                /\ call.err = "not-assignable"
                /\ call.at = i
                /\ \A j \in 1..(i - 1) :
                      Given(call.keys[j]) =>
                          Absorbed(inst, call.keys[j], call.values[call.keys[j]])
                /\ \A j \in i..Len(call.keys) :
                      call.keys[j] \notin NamesBefore(i) =>
                          StateOf(inst, call.keys[j]) = StateOf(call.inst, call.keys[j])

\* an assign that absorbed a value for its first name and failed at its second
C2_Witness ==
    /\ call.op = "assign"
    /\ call.err = "not-assignable"
    /\ call.at = 2
    /\ Given(call.keys[1])
    /\ inst # call.inst

\* every name of the list is absent from values or reachable on the instance
AllReachable ==
    \A i \in DOMAIN call.keys :
        ~Given(call.keys[i]) \/ HasProperty(CallObjs, call.keys[i])

\* the property the name resolves to on the instance takes an assignment: a
\* writable data property, or an accessor that has a setter
Writable(key) ==
    LET d == Resolve(CallObjs, 1, key)
    IN \/ d.kind = "data" /\ d.writable
       \/ d.kind = "accessor" /\ d.set # Undefined

AllWritable ==
    \A i \in DOMAIN call.keys :
        Given(call.keys[i]) => Writable(call.keys[i])

AbsentNamesUnchanged ==
    \A i \in DOMAIN call.keys :
        ~Given(call.keys[i]) =>
            StateOf(inst, call.keys[i]) = StateOf(call.inst, call.keys[i])

\* C3 as claimed: with every name absent from values or reachable on the
\* instance, the assign does not throw, each name that is in values reads on
\* the instance as its value, and each name that is not in values is unchanged
C3_ReachableNamesAssigned ==
    (call.op = "assign" /\ AllReachable) =>
        /\ call.err = "none"
        /\ \A i \in DOMAIN call.keys :
              Given(call.keys[i]) =>
                  Read(Now, chain, InstanceObj, call.keys[i]) = call.values[call.keys[i]]
        /\ AbsentNamesUnchanged

\* C3 as amended: with every name absent from values or reachable on the
\* instance as a property that takes an assignment, the assign does not
\* throw, each name that is in values holds its value (in the data property,
\* or in the field its setter stored it in on the instance, and then it reads
\* as that value through its getter), and each name that is not in values is
\* unchanged
C3_WritableNamesAssigned ==
    (call.op = "assign" /\ AllReachable /\ AllWritable) =>
        /\ call.err = "none"
        /\ \A i \in DOMAIN call.keys :
              LET key == call.keys[i]
                  d == Resolve(FullChain(inst.own, chain), 1, key)
              IN Given(key) =>
                    /\ Absorbed(inst, key, call.values[key])
                    /\ (d.kind = "data" \/ d.get # Undefined) =>
                          Read(Now, chain, InstanceObj, key) = call.values[key]
        /\ AbsentNamesUnchanged

\* an assign that wrote one name through a setter and skipped another name
\* that values does not have
C3_Witness ==
    /\ call.op = "assign"
    /\ call.err = "none"
    /\ AllReachable
    /\ AllWritable
    /\ \E i, j \in DOMAIN call.keys :
          /\ Given(call.keys[i])
          /\ Resolve(CallObjs, 1, call.keys[i]).kind = "accessor"
          /\ inst.fields[call.keys[i]] # call.inst.fields[call.keys[i]]
          /\ ~Given(call.keys[j])

====
